---- MODULE Spec2Model ----
(***************************************************************************)
(* Model of morkdump: the Mork scanner (lex.go) and the recursive-descent  *)
(* parser (parse.go).                                                      *)
(*                                                                         *)
(* A Go string is modelled as a sequence of one-character strings, a Go    *)
(* map as a function with a finite domain (a nil map reads like an empty   *)
(* one and is never written by this code, so both are EmptyMap), and the   *)
(* parser/lexer structs as records that the operators thread through.      *)
(* A Go panic is the field "panic" of the parser record: once it is set    *)
(* every operator returns its argument unchanged, which is the unwinding.  *)
(* A function of several statements is a chain of operators, each taking   *)
(* the result of the statement before it, named once by Bind.              *)
(***************************************************************************)
EXTENDS Naturals, Sequences, FiniteSets, TLC

VARIABLES p, tabs, pc, frame, gtabs, hist

vars == <<p, tabs, pc, frame, gtabs, hist>>

\* v := e, then F(v): the statement's result is computed once and named
Bind(v, F(_)) == CHOOSE r \in {F(n) : n \in {v}} : TRUE

(***************************************************************************)
(* Characters                                                              *)
(***************************************************************************)

\* lex.go:96-98, the rune returned at end of input
EOF == "EOF"

Digits == {"0", "1", "2", "3", "4", "5", "6", "7", "8", "9"}

HexLetters == {"a", "b", "c", "d", "e", "f", "A", "B", "C", "D", "E", "F"}

Letters ==
    {"a", "b", "c", "d", "e", "f", "g", "h", "i", "j", "k", "l", "m",
     "n", "o", "p", "q", "r", "s", "t", "u", "v", "w", "x", "y", "z",
     "A", "B", "C", "D", "E", "F", "G", "H", "I", "J", "K", "L", "M",
     "N", "O", "P", "Q", "R", "S", "T", "U", "V", "W", "X", "Y", "Z"}

isSpace(r) == r \in {" ", "\n", "\r", "\t"}

isDigit(r) == r \in Digits

isAlpha(r) == r \in Letters

isHex(r) == r \in HexLetters \cup Digits

\* lex.go:65-76
singles ==
    [r \in {"(", ")", "[", "]", "{", "}", "<", ">", ":", "+"} |->
        CASE r = "(" -> "tLPAREN"
          [] r = ")" -> "tRPAREN"
          [] r = "[" -> "tLSQUARE"
          [] r = "]" -> "tRSQUARE"
          [] r = "{" -> "tLBRACE"
          [] r = "}" -> "tRBRACE"
          [] r = "<" -> "tLANGLE"
          [] r = ">" -> "tRANGLE"
          [] r = ":" -> "tCOLON"
          [] r = "+" -> "tPLUS"]

(***************************************************************************)
(* Scanner (lex.go).  A lexer is [input, curr, start, state, items]:       *)
(* curr/start are the byte offsets of position (line and column only feed  *)
(* diagnostics), state names the next state function ("nil" for none) and  *)
(* items is the content of the buffered channel.                           *)
(***************************************************************************)

newLexer(input) ==
    [input |-> input, curr |-> 0, start |-> 0, state |-> "lexDefault", items |-> <<>>]

peek(l) == IF l.curr >= Len(l.input) THEN EOF ELSE l.input[l.curr + 1]

\* next returns the rune peek(l) and leaves the lexer advanced by one byte
next(l) == IF l.curr >= Len(l.input) THEN l ELSE [l EXCEPT !.curr = @ + 1]

emit(l, t) ==
    [l EXCEPT !.items = Append(@, [typ |-> t,
                                   val |-> SubSeq(l.input, l.start + 1, l.curr),
                                   pos |-> l.start]),
              !.start = l.curr]

emitErrorf(l, msg) ==
    [l EXCEPT !.items = Append(@, [typ |-> "tERROR", val |-> <<msg>>, pos |-> l.start])]

\* the state function returns st
goState(l, st) == [l EXCEPT !.state = st]

\* emit(t) and return st
emitGo(l, t, st) == goState(emit(l, t), st)

\* a return of nil with no error item emitted; the code does not do this,
\* and ScanEnds tells the two apart
failQuiet(l, msg) == goState(l, "nil")

\* emitErrorf(msg) and return nil
failWith(l, msg) == goState(emitErrorf(l, msg), "nil")

syntaxError(l) == failWith(l, "Syntax error")

RECURSIVE gatherID(_)
gatherID(l) == IF isHex(peek(l)) THEN Bind(next(l), gatherID) ELSE l

\* lexer.expect: [l, ok]; the mismatching byte has been consumed by next()
RECURSIVE lexerExpectFrom(_, _, _)
lexerExpectFrom(l, s, i) ==
    IF i > Len(s) THEN [l |-> l, ok |-> TRUE]
    ELSE IF peek(l) # s[i]
         THEN [l |-> emitErrorf(next(l), "Expected"), ok |-> FALSE]
         ELSE Bind(next(l), LAMBDA n : lexerExpectFrom(n, s, i + 1))

lexerExpect(l, s) == lexerExpectFrom(l, s, 1)

\* an empty id that emits tNAME as well as the error; the code does not do
\* this, and QueueBound tells the two apart
caretNameBoth(l1, l2) ==
    IF l2.curr = l1.curr THEN syntaxError(emit(l2, "tNAME"))
    ELSE emitGo(l2, "tNAME", "lexDefault")

\* lex.go:227-231, l1 being the lexer after emit(tCARET), l2 after gatherID
caretName(l1, l2) ==
    IF l2.curr = l1.curr THEN syntaxError(l2) ELSE emitGo(l2, "tNAME", "lexDefault")

\* lex.go:224-226, l1 being the lexer after emit(tCARET)
caretID(l1) == Bind(gatherID(l1), LAMBDA l2 : caretName(l1, l2))

\* lex.go:222-232, the case '^' of lexDefault
lexCaret(l) == Bind(emit(next(l), "tCARET"), caretID)

\* l.ignore() after next(): position moves behind the byte
skipByte(l) == [next(l) EXCEPT !.start = l.curr + 1]

RECURSIVE lexDefault(_)
lexDefault(l) ==
    IF peek(l) = EOF THEN emitGo(l, "tEOF", "nil")
    ELSE IF isSpace(peek(l)) THEN Bind(skipByte(l), lexDefault)
    ELSE IF peek(l) \in DOMAIN singles
         THEN Bind(next(l), LAMBDA n : emitGo(n, singles[peek(l)], "lexDefault"))
    ELSE IF peek(l) = "^" THEN lexCaret(l)
    ELSE IF peek(l) = "/" THEN goState(l, "lexComment")
    ELSE IF peek(l) = "=" THEN goState(l, "lexLiteral")
    ELSE IF isAlpha(peek(l)) \/ isDigit(peek(l)) \/ peek(l) = "_"
         THEN goState(l, "lexName")
    ELSE IF peek(l) = "@" THEN goState(l, "lexGroup")
    ELSE syntaxError(l)

\* a scan that ends at the first ')' whatever is before it; the code does
\* not do this, and LiteralExtent tells the two apart
RECURSIVE litScanNoEsc(_, _)
litScanNoEsc(l, esc) ==
    IF peek(l) = EOF \/ peek(l) = ")" THEN l
    ELSE Bind(next(l), LAMBDA n : litScanNoEsc(n, FALSE))

RECURSIVE litScan(_, _)
litScan(l, esc) ==
    IF peek(l) = EOF THEN l
    ELSE IF ~esc /\ peek(l) = ")" THEN l
    ELSE IF ~esc /\ peek(l) = "\\" THEN Bind(next(l), LAMBDA n : litScan(n, TRUE))
    ELSE Bind(next(l), LAMBDA n : litScan(n, FALSE))

\* lex.go:262-283, l1 being the lexer after emit(tEQUAL)
litBody(l1) ==
    Bind(litScan(l1, FALSE), LAMBDA l2 : emitGo(l2, "tLITERAL", "lexDefault"))

lexLiteral(l) ==
    IF peek(l) # "="
    THEN Bind(next(l), LAMBDA n : failWith(n, "Missing '='"))
    ELSE Bind(emit(next(l), "tEQUAL"), litBody)

RECURSIVE toEOL(_)
toEOL(l) == IF peek(l) = EOF \/ peek(l) = "\n" THEN l ELSE Bind(next(l), toEOL)

\* lex.go:306-308, l1 being the lexer at the end of the line
commentEnd(l1) == [l1 EXCEPT !.start = l1.curr, !.state = "lexDefault"]

\* lex.go:292-308, l1 being the lexer after the first '/'
commentSecond(l1) ==
    IF peek(l1) # "/"
    THEN Bind(next(l1), LAMBDA n : failWith(n, "expected '/'"))
    ELSE Bind(next(l1), LAMBDA n : Bind(toEOL(n), commentEnd))

lexComment(l) ==
    IF peek(l) # "/"
    THEN Bind(next(l), LAMBDA n : failWith(n, "expected '/'"))
    ELSE Bind(next(l), commentSecond)

RECURSIVE nameScan(_, _)
nameScan(l, first) ==
    IF \/ isAlpha(peek(l)) \/ isDigit(peek(l)) \/ peek(l) = "_"
       \/ (~first /\ peek(l) \in {"-", "!", "?", "+"})
    THEN Bind(next(l), LAMBDA n : nameScan(n, FALSE))
    ELSE l

lexName(l) == Bind(nameScan(l, TRUE), LAMBDA n : emitGo(n, "tNAME", "lexDefault"))

\* the end of a group token: e is the result of lexer.expect
groupEmit(e, t) ==
    IF ~e.ok THEN goState(e.l, "nil") ELSE emitGo(e.l, t, "lexDefault")

\* a group id that may be empty; the code does not do this, and
\* GroupMarkers tells the two apart
groupIDAny(l1, l2, closing, t) ==
    Bind(lexerExpect(l2, closing), LAMBDA e : groupEmit(e, t))

\* lex.go:362-371 and 383-392, l1 being the lexer before the id and l2 after
groupID(l1, l2, closing, t) ==
    IF l2.curr = l1.curr THEN failWith(l2, "Bad ID")
    ELSE Bind(lexerExpect(l2, closing), LAMBDA e : groupEmit(e, t))

\* lex.go:360-396, r being the byte after "@$$" and l1 the lexer behind it
groupKind(r, l1) ==
    IF r = "{"
    THEN Bind(gatherID(l1), LAMBDA l2 : groupID(l1, l2, <<"{", "@">>, "tGROUPSTART"))
    ELSE IF r = "}"
    THEN IF peek(l1) = "~"
         THEN Bind(lexerExpect(l1, <<"~", "~", "}", "@">>),
                   LAMBDA e : groupEmit(e, "tGROUPABORT"))
         ELSE Bind(gatherID(l1), LAMBDA l2 : groupID(l1, l2, <<"}", "@">>, "tGROUPCOMMIT"))
    ELSE syntaxError(l1)

\* lex.go:352-359, e being the result of expect("@$$")
groupHead(e) ==
    IF ~e.ok THEN goState(e.l, "nil")
    ELSE Bind(next(e.l), LAMBDA l1 : groupKind(peek(e.l), l1))

lexGroup(l) == Bind(lexerExpect(l, <<"@", "$", "$">>), groupHead)

\* l.state(l): one invocation of the current state function
runState(l) ==
    CASE l.state = "lexDefault" -> lexDefault(l)
      [] l.state = "lexLiteral" -> lexLiteral(l)
      [] l.state = "lexComment" -> lexComment(l)
      [] l.state = "lexName"    -> lexName(l)
      [] l.state = "lexGroup"   -> lexGroup(l)

NoTok == [typ |-> "none", val |-> <<>>, pos |-> 0]

\* nextItem: [tok, l, nilcall].  Calling the nil state function is a run-time
\* panic (nil function call), reported as nilcall.
RECURSIVE nextItem(_)
nextItem(l) ==
    IF l.items # <<>>
    THEN [tok |-> Head(l.items), l |-> [l EXCEPT !.items = Tail(@)], nilcall |-> FALSE]
    ELSE IF l.state = "nil"
    THEN [tok |-> NoTok, l |-> l, nilcall |-> TRUE]
    ELSE Bind(runState(l), nextItem)
(***************************************************************************)
(* Parser (parse.go).  A parser is [lex, peeked, err, dicts, panic] plus   *)
(* two observation fields the code does not have:                          *)
(*   defs  - the cells of the completed dict constructs, in document order *)
(*   trunc - a hex id was accepted although the identifier written in the  *)
(*           input goes on with a non-hex name character                   *)
(***************************************************************************)

EmptyMap == [k \in {} |-> <<>>]

Put(m, k, v) == [x \in DOMAIN m \cup {k} |-> IF x = k THEN v ELSE m[x]]

\* the error value nil, and the four fmt.Errorf values of parse.go
Nil == [kind |-> "nil", a |-> <<>>, b |-> <<>>]

ErrUnexpected(tok) == [kind |-> "Unexpected", a |-> <<tok.typ>>, b |-> tok.val]

ErrExpect(tok) == [kind |-> "Unexpected -", a |-> <<tok.typ>>, b |-> tok.val]

ErrBadAlias(id, ns) == [kind |-> "bad alias", a |-> id, b |-> ns]

ErrNotHex(tok) == [kind |-> "Not hex", a |-> <<tok.typ>>, b |-> tok.val]

\* item{}: the zero item (itemType 0 is tEOF)
EmptyItem == [typ |-> "tEOF", val |-> <<>>, pos |-> 0]

\* Table{}: the zero table
EmptyTable == [meta |-> EmptyMap, rows |-> EmptyMap]

NewParser(l) ==
    [lex |-> l, peeked |-> NoTok, err |-> Nil, dicts |-> EmptyMap,
     panic |-> "none", defs |-> <<>>, trunc |-> FALSE]

Panicked(q) == q.panic # "none"

\* a [p, val] result holding no value
NoVal(q) == [p |-> q, val |-> <<>>]

\* the [p, val] of a [p, tok]
TokVal(e) == [p |-> e.p, val |-> e.tok.val]

\* parser.dict: the parser with the namespace's dictionary created if missing
dict(q, namespace) ==
    IF namespace \in DOMAIN q.dicts THEN q
    ELSE [q EXCEPT !.dicts = Put(@, namespace, EmptyMap)]

\* dict[id] of parser.resolve (parse.go:51-56), q holding the dictionary
resolveIn(q, id, namespace) ==
    IF id \notin DOMAIN q.dicts[namespace]
    THEN [p |-> [q EXCEPT !.err = ErrBadAlias(id, namespace)], val |-> <<>>]
    ELSE [p |-> q, val |-> q.dicts[namespace][id]]

\* parser.resolve: [p, val]
resolve(q, id, namespace) ==
    IF Panicked(q) \/ q.err # Nil THEN NoVal(q)
    ELSE Bind(dict(q, namespace), LAMBDA d : resolveIn(d, id, namespace))

\* p.peeked = &tok (parse.go:62-63), r being the result of nextItem
peekFill(q, r) ==
    IF r.nilcall THEN [q EXCEPT !.panic = "nil state"]
    ELSE [q EXCEPT !.lex = r.l, !.peeked = r.tok]

\* parser.peekTok: the parser with the next token in peeked
peekTok(q) ==
    IF Panicked(q) \/ q.peeked.typ # "none" THEN q
    ELSE Bind(nextItem(q.lex), LAMBDA r : peekFill(q, r))

\* tok = p.lex.nextItem() (parse.go:75), r being the result of nextItem
nextFresh(q, r) ==
    IF r.nilcall THEN [p |-> [q EXCEPT !.panic = "nil state"], tok |-> EmptyItem]
    ELSE [p |-> [q EXCEPT !.lex = r.l], tok |-> r.tok]

\* parser.nextTok: [p, tok]
nextTok(q) ==
    IF Panicked(q) THEN [p |-> q, tok |-> EmptyItem]
    ELSE IF q.peeked.typ # "none"
    THEN [p |-> [q EXCEPT !.peeked = NoTok], tok |-> q.peeked]
    ELSE Bind(nextItem(q.lex), LAMBDA r : nextFresh(q, r))

\* what parser.expect does with a token of the wrong kind (parse.go:118-122)
expectMismatch(q, tok) == [q EXCEPT !.err = ErrExpect(tok), !.panic = "poop"]

\* the test of parser.expect (parse.go:118-123), n being the result of nextTok
expectCheck(n, expected) ==
    IF Panicked(n.p) THEN [p |-> n.p, tok |-> EmptyItem]
    ELSE IF n.tok.typ # expected
    THEN [p |-> expectMismatch(n.p, n.tok), tok |-> EmptyItem]
    ELSE n

\* an expect without the test of p.err at its head; the code does not do
\* this, and StickyError tells the two apart
expectUnchecked(q, expected) ==
    IF Panicked(q) THEN [p |-> q, tok |-> EmptyItem]
    ELSE Bind(nextTok(q), LAMBDA n : expectCheck(n, expected))

\* parser.expect: [p, tok]
expect(q, expected) ==
    IF Panicked(q) \/ q.err # Nil THEN [p |-> q, tok |-> EmptyItem]
    ELSE Bind(nextTok(q), LAMBDA n : expectCheck(n, expected))

\* parser.expectName: [p, val]
expectName(q) == Bind(expect(q, "tNAME"), TokVal)

\* the byte that follows a token in the input
ByteAfter(l, tok) ==
    IF tok.pos + Len(tok.val) + 1 > Len(l.input) THEN EOF
    ELSE l.input[tok.pos + Len(tok.val) + 1]

\* the identifier written in the input goes on after the token
CutShort(l, tok) == isAlpha(ByteAfter(l, tok)) \/ ByteAfter(l, tok) = "_"

\* the hex test of parser.expectID (parse.go:237-242)
AllHex(val) == \A i \in 1..Len(val) : isHex(val[i])

\* parse.go:233-243, e being the result of expect(tNAME)
hexCheck(e) ==
    IF Panicked(e.p) \/ e.p.err # Nil THEN NoVal(e.p)
    ELSE IF ~AllHex(e.tok.val)
    THEN NoVal([e.p EXCEPT !.err = ErrNotHex(e.tok)])
    ELSE [p   |-> [e.p EXCEPT !.trunc = @ \/ CutShort(e.p.lex, e.tok)],
          val |-> e.tok.val]

\* parser.expectID: [p, val]
expectID(q) == Bind(expect(q, "tNAME"), hexCheck)

\* parse.go:254-257, nm being the result of expect(tNAME)
refNamed(nm, id) ==
    IF Panicked(nm.p) THEN NoVal(nm.p) ELSE resolve(nm.p, id, nm.tok.val)

\* parse.go:253-255, n being the result of nextTok on the ':'
refColon(n, id) == Bind(expect(n.p, "tNAME"), LAMBDA nm : refNamed(nm, id))

\* parse.go:251-257, q being the parser after peekTok
refResolve(q, id, defaultNamespace) ==
    IF Panicked(q) THEN NoVal(q)
    ELSE IF q.peeked.typ = "tCOLON"
    THEN Bind(nextTok(q), LAMBDA n : refColon(n, id))
    ELSE resolve(q, id, defaultNamespace)

\* parse.go:250, id being the result of expectID
refScope(id, defaultNamespace) ==
    Bind(peekTok(id.p), LAMBDA q : refResolve(q, id.val, defaultNamespace))

\* parse.go:249, c being the result of expect(tCARET)
refID(c, defaultNamespace) ==
    Bind(expectID(c.p), LAMBDA id : refScope(id, defaultNamespace))

\* parser.expectRef: [p, val]
expectRef(q, defaultNamespace) ==
    Bind(expect(q, "tCARET"), LAMBDA c : refID(c, defaultNamespace))

\* the oid with an explicit scope, s being the [p, val] of the scope
oidWith(s, name) == [p |-> s.p, name |-> name, scope |-> s.val, explicit |-> TRUE]

\* parse.go:274-280, q being the parser after the peekTok behind the ':'
oidAfterColon(q, name, defaultNamespace) ==
    IF Panicked(q) THEN oidWith(NoVal(q), name)
    ELSE IF q.peeked.typ = "tCARET"
    THEN Bind(expectRef(q, defaultNamespace), LAMBDA s : oidWith(s, name))
    ELSE Bind(expectName(q), LAMBDA s : oidWith(s, name))

\* parse.go:273-274, n being the result of nextTok on the ':'
oidColon(n, name, defaultNamespace) ==
    Bind(peekTok(n.p), LAMBDA q : oidAfterColon(q, name, defaultNamespace))

\* parse.go:269-282, q being the parser after peekTok
oidAfterID(q, name, defaultNamespace) ==
    IF ~Panicked(q) /\ q.peeked.typ = "tCOLON"
    THEN Bind(nextTok(q), LAMBDA n : oidColon(n, name, defaultNamespace))
    ELSE [p |-> q, name |-> name, scope |-> <<>>, explicit |-> FALSE]

\* parse.go:271, id being the result of expectID
oidScope(id, defaultNamespace) ==
    Bind(peekTok(id.p), LAMBDA q : oidAfterID(q, id.val, defaultNamespace))

\* parser.expectOID: [p, name, scope, explicit]; explicit tells whether the
\* oid carried a ':' scope part
expectOID(q, defaultNamespace) ==
    Bind(expectID(q), LAMBDA id : oidScope(id, defaultNamespace))

\* parse.go:195-196, vl being the [p, val] of the slot
cellClose(vl, name) ==
    [p |-> expect(vl.p, "tRPAREN").p, name |-> name, value |-> vl.val]

\* parse.go:189-191, n being the result of nextTok on the '='
cellLiteral(n) == Bind(expect(n.p, "tLITERAL"), TokVal)

\* parse.go:188-194, q being the parser after peekTok: the [p, val] of the slot
cellSlotVal(q) ==
    IF Panicked(q) THEN NoVal(q)
    ELSE IF q.peeked.typ = "tEQUAL" THEN Bind(nextTok(q), cellLiteral)
    ELSE expectRef(q, <<"a">>)

\* parse.go:188-196, q being the parser after peekTok
cellValue(q, name) == Bind(cellSlotVal(q), LAMBDA vl : cellClose(vl, name))

\* parse.go:187, nm being the [p, val] of the column
cellSlot(nm) == Bind(peekTok(nm.p), LAMBDA q : cellValue(q, nm.val))

\* parse.go:180-184, q being the parser after peekTok: the [p, val] of the column
cellColVal(q) ==
    IF Panicked(q) THEN NoVal(q)
    ELSE IF q.peeked.typ = "tCARET" THEN expectRef(q, <<"c">>)
    ELSE expectName(q)

\* parse.go:180-196, q being the parser after peekTok
cellCol(q) == Bind(cellColVal(q), cellSlot)

\* parse.go:179, e being the result of expect(tLPAREN)
cellOpen(e) == Bind(peekTok(e.p), cellCol)

\* parser.expectCell: [p, name, value]
expectCell(q) == Bind(expect(q, "tLPAREN"), cellOpen)

\* a store that keeps the value a name already has; the code does not do
\* this, and DictLastWriteWins tells the two apart
CellStoreFirst(out, name, val) ==
    IF name \in DOMAIN out THEN out ELSE Put(out, name, val)

\* out[name] = val (parse.go:211)
CellStore(out, name, val) == Put(out, name, val)

\* parser.expectCells: [p, cells, seq]; seq lists the cells in document order
RECURSIVE cellsLoop(_, _, _), cellsPeeked(_, _, _), cellsAdd(_, _, _)

\* parse.go:208-211, c being the result of expectCell
cellsAdd(c, out, seq) ==
    IF Panicked(c.p) \/ c.p.err # Nil
    THEN [p |-> c.p, cells |-> EmptyMap, seq |-> <<>>]
    ELSE Bind(CellStore(out, c.name, c.value),
              LAMBDA o : cellsLoop(c.p, o, Append(seq, <<c.name, c.value>>)))

\* parse.go:204-207, q being the parser after peekTok
cellsPeeked(q, out, seq) ==
    IF Panicked(q) THEN [p |-> q, cells |-> EmptyMap, seq |-> <<>>]
    ELSE IF q.peeked.typ # "tLPAREN" THEN [p |-> q, cells |-> out, seq |-> seq]
    ELSE Bind(expectCell(q), LAMBDA c : cellsAdd(c, out, seq))

cellsLoop(q, out, seq) == Bind(peekTok(q), LAMBDA n : cellsPeeked(n, out, seq))

expectCells(q) == cellsLoop(q, EmptyMap, <<>>)

\* parse.go:161-162, c being the result of expectCells
metaClose(c) == [p |-> expect(c.p, "tRANGLE").p, cells |-> c.cells]

\* parser.expectMetadict: [p, cells]
expectMetadict(q) ==
    Bind(expect(q, "tLANGLE"), LAMBDA e : Bind(expectCells(e.p), metaClose))

\* a scope that is the default a whatever the metadict holds; the code does not do
\* this, and DictFrame tells the two apart
DictScopeDefault(meta) == <<"a">>

\* the namespace a dict construct writes to (parse.go:133, 140-142)
DictScope(meta) == IF <<"a">> \in DOMAIN meta THEN meta[<<"a">>] ELSE <<"a">>

\* the update loop of expectDict (parse.go:152-154)
DictMerge(targ, cells) ==
    [k \in DOMAIN targ \cup DOMAIN cells |->
        IF k \in DOMAIN cells THEN cells[k] ELSE targ[k]]

\* the cells of a dict construct as entries of the namespace scope
DefsOf(seq, scope) ==
    [i \in 1..Len(seq) |-> [ns |-> scope, id |-> seq[i][1], val |-> seq[i][2]]]

\* parse.go:150-154, q being the parser that holds the target dictionary
dictStore(q, c, scope) ==
    [q EXCEPT !.dicts[scope] = DictMerge(@, c.cells),
              !.defs = @ \o DefsOf(c.seq, scope)]

\* parse.go:148-155, q being the parser after expect(tRANGLE)
dictUpdate(q, c, scope) ==
    IF Panicked(q) \/ q.err # Nil THEN q
    ELSE Bind(dict(q, scope), LAMBDA d : dictStore(d, c, scope))

\* parse.go:146, c being the result of expectCells
dictClose(c, scope) ==
    Bind(expect(c.p, "tRANGLE"), LAMBDA e : dictUpdate(e.p, c, scope))

\* parse.go:145, m being the [p, cells] of the metadict
dictCells(m) ==
    Bind(expectCells(m.p), LAMBDA c : dictClose(c, DictScope(m.cells)))

\* parse.go:136-143, q being the parser after peekTok
dictMeta(q) ==
    IF ~Panicked(q) /\ q.peeked.typ = "tLANGLE"
    THEN Bind(expectMetadict(q), dictCells)
    ELSE dictCells([p |-> q, cells |-> EmptyMap])

\* parse.go:135-136, e being the result of expect(tLANGLE)
dictOpen(e) == Bind(peekTok(e.p), dictMeta)

\* parser.expectDict: the parser after the dict construct
expectDict(q) == Bind(expect(q, "tLANGLE"), dictOpen)

\* parse.go:226-227, c being the result of expectCells
rowClose(c, roid) ==
    [p |-> expect(c.p, "tRSQUARE").p, roid |-> roid, cells |-> c.cells]

\* parse.go:225, o being the result of expectOID
rowCells(o) == Bind(expectCells(o.p), LAMBDA c : rowClose(c, o.name))

\* parser.expectRow: [p, roid, cells]
expectRow(q, rowScope) ==
    Bind(expect(q, "tLSQUARE"), LAMBDA e : Bind(expectOID(e.p, rowScope), rowCells))

(***************************************************************************)
(* Inputs: the byte buffers handed to newLexer.  An input is an optional   *)
(* group-start marker followed by up to MaxConstructs fragments, or the    *)
(* buffer of the specification's first scenario.                           *)
(***************************************************************************)

MaxConstructs == 3

\* <(1=x)>
FragDict == <<"<", "(", "1", "=", "x", ")", ">">>

\* <(1=y)(1=z)(2^1)>
FragDictTwice == <<"<", "(", "1", "=", "y", ")", "(", "1", "=", "z", ")", "(", "2", "^", "1", ")", ">">>

\* <<(a=c)>(1=s)>
FragDictC == <<"<", "<", "(", "a", "=", "c", ")", ">", "(", "1", "=", "s", ")", ">">>

\* {1:c{(m^1)}[2(n^2)]}
FragTable == <<"{", "1", ":", "c", "{", "(", "m", "^", "1", ")", "}", "[", "2", "(", "n", "^", "2", ")", "]", "}">>

\* {1[3(n=w)]5}
FragTableNoScope == <<"{", "1", "[", "3", "(", "n", "=", "w", ")", "]", "5", "}">>

\* {1:c[4(k=u)]}
FragTablePlain == <<"{", "1", ":", "c", "[", "4", "(", "k", "=", "u", ")", "]", "}">>

\* {1:^1g}
FragTableRefScope == <<"{", "1", ":", "^", "1", "g", "}">>

\* [1g]
FragRow == <<"[", "1", "g", "]">>

\* @$${1{@
FragGroupStart == <<"@", "$", "$", "{", "1", "{", "@">>

\* @$$}1}@
FragGroupCommit == <<"@", "$", "$", "}", "1", "}", "@">>

\* @$$}~~}@
FragGroupAbort == <<"@", "$", "$", "}", "~", "~", "}", "@">>

\* {1
FragOpenTable == <<"{", "1">>

\* <
FragOpenAngle == <<"<">>

\* {
FragOpenBrace == <<"{">>

\* #
FragHash == <<"#">>

\* <(name =Alice)>{10{(owner=Alice)}[20(name=Bob)]}
Scenario1 ==
    <<"<", "(", "n", "a", "m", "e", " ", "=", "A", "l", "i", "c", "e", ")", ">", "{", "1", "0", "{", "(", "o", "w", "n", "e">>
    \o <<"r", "=", "A", "l", "i", "c", "e", ")", "}", "[", "2", "0", "(", "n", "a", "m", "e", "=", "B", "o", "b", ")", "]", "}">>

Fragments ==
    {FragDict,
     FragDictTwice,
     FragDictC,
     FragTable,
     FragTableNoScope,
     FragTablePlain,
     FragTableRefScope,
     FragRow,
     FragGroupStart,
     FragGroupCommit,
     FragGroupAbort,
     FragOpenTable,
     FragOpenAngle,
     FragOpenBrace,
     FragHash}

RECURSIVE Flatten(_)
Flatten(ss) == IF ss = <<>> THEN <<>> ELSE Head(ss) \o Flatten(Tail(ss))

Inputs ==
    {h \o Flatten(ss) : h \in {<<>>, FragGroupStart},
                        ss \in UNION {[1..n -> Fragments] : n \in 0..MaxConstructs}}
    \cup {Scenario1}

(***************************************************************************)
(* The parse as a state machine.  pc is the loop the parser stands in:     *)
(*   "Parse"    the loop of Parse               (parse.go:83)              *)
(*   "Group"    the loop of expectGroup         (parse.go:344)             *)
(*   "MetaSkip" the metatable loop, expectTable (parse.go:308)             *)
(*   "Rows"     the row loop of expectTable     (parse.go:319)             *)
(*   "Done"     Parse has returned (tabs, p.err)                           *)
(*   "Panic"    the goroutine has panicked                                 *)
(* frame holds the locals of the running expectTable, its caller and the   *)
(* parity of the iterations its row loop has made (iter), gtabs            *)
(* the tabs local of expectGroup.  hist records, for the properties, the   *)
(* state around the last group (grp is how it ended; dicts0, tabs0, defs0  *)
(* at its group-start token; dictsEnd, gtabsEnd, defsEnd, tabsEnd when     *)
(* expectGroup has returned to Parse) and the top-level table constructs   *)
(* in document order (tlog).                                               *)
(***************************************************************************)

NoFrame ==
    [toid |-> <<>>, id |-> <<>>, tscope |-> <<>>, explicit |-> FALSE,
     tab |-> EmptyTable, caller |-> "Parse", iter |-> 0]

NoHist ==
    [grp |-> "none", dicts0 |-> EmptyMap, tabs0 |-> EmptyMap,
     dictsEnd |-> EmptyMap, gtabsEnd |-> EmptyMap, tabsEnd |-> EmptyMap,
     defs0 |-> <<>>, defsEnd |-> <<>>, tlog |-> <<>>]

Init ==
    /\ \E input \in Inputs : p = NewParser(newLexer(input))
    /\ tabs = EmptyMap
    /\ pc = "Parse"
    /\ frame = NoFrame
    /\ gtabs = EmptyMap
    /\ hist = NoHist

\* tok := p.peekTok(); switch tok.typ: the case taken is typ
PeekIs(q, typ) == ~Panicked(q) /\ q.peeked.typ = typ

\* the switch has no case for the token (or the peek panicked)
PeekNotIn(q, typs) == Panicked(q) \/ q.peeked.typ \notin typs

\* where Parse goes after one statement of its switch (parse.go:104-106)
AfterTop(q) ==
    IF Panicked(q) THEN "Panic" ELSE IF q.err # Nil THEN "Done" ELSE "Parse"

\* where expectGroup goes after one statement of its switch (parse.go:371-373);
\* on an error it returns to Parse, which returns in turn
AfterGroup(q) ==
    IF Panicked(q) THEN "Panic" ELSE IF q.err # Nil THEN "Done" ELSE "Group"

\* the group ended by an error
GroupHist(q) == IF q.err # Nil THEN [hist EXCEPT !.grp = "error"] ELSE hist

\* _ = p.expectGroup() (parse.go:99): what Parse does with the group's tables
ParseGroupResult(t, ret) == t

\* the value expectGroup returns at end of input (parse.go:347-349)
GroupEOFResult(gt) == EmptyMap

\* the value expectGroup returns at a group-abort token (parse.go:364-366)
GroupAbortResult(gt) == EmptyMap

\* toid = fmt.Sprintf("%s:%s", toid, tscope) (parse.go:298)
TableKey(id, scope) == id \o <<":">> \o scope

\* the locals of expectTable when it enters its first loop
tableRec(q, o, meta, hasMeta) ==
    [p        |-> q,
     toid     |-> TableKey(o.name, o.scope),
     id       |-> o.name,
     tscope   |-> o.scope,
     explicit |-> o.explicit,
     tab      |-> [meta |-> meta, rows |-> EmptyMap],
     meta     |-> hasMeta]

\* tab.meta = p.expectCells() (parse.go:305)
tableWithMeta(c, o) == tableRec(c.p, o, c.cells, TRUE)

\* parse.go:304-305, n being the result of nextTok on the '{'
tableCells(n, o) == Bind(expectCells(n.p), LAMBDA c : tableWithMeta(c, o))

\* parse.go:301-305, q being the parser after peekTok
tableMeta(q, o) ==
    IF ~Panicked(q) /\ q.peeked.typ = "tLBRACE"
    THEN Bind(nextTok(q), LAMBDA n : tableCells(n, o))
    ELSE tableRec(q, o, EmptyMap, FALSE)

\* parse.go:298-301, o being the result of expectOID
tableOID(o) == Bind(peekTok(o.p), LAMBDA q : tableMeta(q, o))

\* parse.go:291-292, e being the result of expect(tLBRACE)
tableOpen(e) == Bind(expectOID(e.p, <<"c">>), tableOID)

\* expectTable up to its first loop (parse.go:290-307):
\* [p, toid, id, tscope, explicit, tab, meta]
TableHead(q) == Bind(expect(q, "tLBRACE"), tableOpen)

\* expectTable stands in its first loop, h being the result of TableHead
EnterTable(h, caller) ==
    /\ p' = h.p
    /\ frame' = [toid |-> h.toid, id |-> h.id, tscope |-> h.tscope,
                 explicit |-> h.explicit, tab |-> h.tab, caller |-> caller,
                 iter |-> 0]
    /\ pc' = IF Panicked(h.p) THEN "Panic" ELSE IF h.meta THEN "MetaSkip" ELSE "Rows"
    /\ UNCHANGED <<tabs, gtabs, hist>>

\* tabs[toid] = tab (parse.go:97 and parse.go:359)
TableStore(t, toid, tab) == Put(t, toid, tab)

\* a store in which expectGroup writes to the map of Parse as well; the code
\* does not do this, and TruncatedGroupDiscarded tells the two apart
GroupStoreShared(t, gt, toid, tab) ==
    [tabs |-> TableStore(t, toid, tab), gtabs |-> TableStore(gt, toid, tab)]

\* tabs[toid] = tab in expectGroup (parse.go:359): tabs is the local declared
\* at parse.go:343, and the map of Parse (t) is left alone
GroupStore(t, gt, toid, tab) ==
    [tabs |-> t, gtabs |-> TableStore(gt, toid, tab)]

\* the top-level table construct that has just returned, q being the parser
\* it leaves (q.err is the error recorded during the construct, if any)
TableEntry(q, tab) ==
    [id |-> frame.id, scope |-> frame.tscope, explicit |-> frame.explicit,
     key |-> frame.toid, tab |-> tab, err |-> q.err]

\* expectTable returns (toid, tab) to its caller, which stores the table and
\* checks p.err
ReturnTable(q, tab) ==
    /\ p' = q
    /\ frame' = NoFrame
    /\ IF frame.caller = "Parse"
       THEN /\ tabs' = TableStore(tabs, frame.toid, tab)
            /\ gtabs' = gtabs
            /\ hist' = [hist EXCEPT !.tlog = Append(@, TableEntry(q, tab))]
            /\ pc' = AfterTop(q)
       ELSE /\ \E g \in {GroupStore(tabs, gtabs, frame.toid, tab)} :
                   gtabs' = g.gtabs /\ tabs' = g.tabs
            /\ hist' = GroupHist(q)
            /\ pc' = AfterGroup(q)

\* a statement of the switch of Parse has run, leaving the parser q
TopDone(q) ==
    /\ p' = q
    /\ pc' = AfterTop(q)
    /\ UNCHANGED <<tabs, frame, gtabs, hist>>

\* a statement of the switch of expectGroup has run, leaving the parser q
GroupDone(q) ==
    /\ p' = q
    /\ pc' = AfterGroup(q)
    /\ hist' = GroupHist(q)
    /\ UNCHANGED <<tabs, frame, gtabs>>

\* expectGroup returns ret to Parse, the group having ended by how
EndGroup(q, how, ret) ==
    /\ p' = q
    /\ tabs' = ParseGroupResult(tabs, ret)
    /\ gtabs' = EmptyMap
    /\ hist' = [hist EXCEPT !.grp = how, !.dictsEnd = q.dicts, !.gtabsEnd = gtabs,
                            !.defsEnd = q.defs,
                            !.tabsEnd = ParseGroupResult(tabs, ret)]
    /\ pc' = AfterTop(q)
    /\ UNCHANGED frame

\* the default case of both switches (parse.go:100-101 and 367-368)
Unexpected(q) ==
    /\ p' = IF Panicked(q) THEN q ELSE [q EXCEPT !.err = ErrUnexpected(q.peeked)]
    /\ pc' = IF Panicked(q) THEN "Panic" ELSE "Done"

---------------------------------------------------------------------------
\* Parse (parse.go:81-108)

\* case tEOF: return tabs, p.err
ReturnEOF(q) ==
    /\ p' = q
    /\ pc' = "Done"
    /\ UNCHANGED <<tabs, frame, gtabs, hist>>

ParseEOF ==
    /\ pc = "Parse"
    /\ \E q \in {peekTok(p)} : PeekIs(q, "tEOF") /\ ReturnEOF(q)

ParseDict ==
    /\ pc = "Parse"
    /\ \E q \in {peekTok(p)} :
          PeekIs(q, "tLANGLE") /\ \E r \in {expectDict(q)} : TopDone(r)

ParseRow ==
    /\ pc = "Parse"
    /\ \E q \in {peekTok(p)} :
          PeekIs(q, "tLSQUARE") /\ \E r \in {expectRow(q, <<"c">>)} : TopDone(r.p)

ParseTable ==
    /\ pc = "Parse"
    /\ \E q \in {peekTok(p)} :
          PeekIs(q, "tLBRACE") /\ \E h \in {TableHead(q)} : EnterTable(h, "Parse")

\* expectGroup up to its loop (parse.go:342-343), q being the parser of Parse
StartGroup(q) ==
    /\ \E e \in {expect(q, "tGROUPSTART")} : p' = e.p
    /\ pc' = "Group"
    /\ gtabs' = EmptyMap
    /\ hist' = [hist EXCEPT !.grp = "open", !.dicts0 = q.dicts, !.tabs0 = tabs,
                            !.defs0 = q.defs]
    /\ UNCHANGED <<tabs, frame>>

ParseGroup ==
    /\ pc = "Parse"
    /\ \E q \in {peekTok(p)} : PeekIs(q, "tGROUPSTART") /\ StartGroup(q)

ParseUnexpected ==
    /\ pc = "Parse"
    /\ \E q \in {peekTok(p)} :
          /\ PeekNotIn(q, {"tEOF", "tLANGLE", "tLSQUARE", "tLBRACE", "tGROUPSTART"})
          /\ Unexpected(q)
    /\ UNCHANGED <<tabs, frame, gtabs, hist>>

---------------------------------------------------------------------------
\* expectTable (parse.go:289-335)

\* the metatable loop with p.err set: return toid, Table{}
MetaSkipErr ==
    /\ pc = "MetaSkip"
    /\ p.err # Nil
    /\ ReturnTable(p, EmptyTable)

\* parse.go:312-315, n being the result of nextTok
SkipTok(n) ==
    /\ p' = n.p
    /\ pc' = IF Panicked(n.p) THEN "Panic"
             ELSE IF n.tok.typ = "tRBRACE" THEN "Rows" ELSE "MetaSkip"
    /\ UNCHANGED <<tabs, frame, gtabs, hist>>

\* the metatable loop: one token is consumed
MetaSkipTok ==
    /\ pc = "MetaSkip"
    /\ p.err = Nil
    /\ \E n \in {nextTok(p)} : SkipTok(n)

RowsEnd ==
    /\ pc = "Rows"
    /\ \E q \in {peekTok(p)} :
          PeekIs(q, "tRBRACE") /\ \E n \in {nextTok(q)} : ReturnTable(n.p, frame.tab)

\* tab.rows[rowID] = rowData (parse.go:327-328), r being the result of expectRow
StoreRow(r) ==
    /\ p' = r.p
    /\ frame' = IF Panicked(r.p) THEN frame
                ELSE [frame EXCEPT !.tab.rows = Put(@, r.roid, r.cells),
                                   !.iter = 1 - @]
    /\ pc' = IF Panicked(r.p) THEN "Panic" ELSE "Rows"
    /\ UNCHANGED <<tabs, gtabs, hist>>

RowsRow ==
    /\ pc = "Rows"
    /\ \E q \in {peekTok(p)} :
          PeekIs(q, "tLSQUARE") /\ \E r \in {expectRow(q, frame.tscope)} : StoreRow(r)

\* the row loop goes round, q being the parser after the iteration
RowsAgain(q) ==
    /\ p' = q
    /\ frame' = IF Panicked(q) THEN frame ELSE [frame EXCEPT !.iter = 1 - @]
    /\ pc' = IF Panicked(q) THEN "Panic" ELSE "Rows"
    /\ UNCHANGED <<tabs, gtabs, hist>>

RowsName ==
    /\ pc = "Rows"
    /\ \E q \in {peekTok(p)} :
          PeekIs(q, "tNAME") /\ \E n \in {nextTok(q)} : RowsAgain(n.p)

\* the switch of the row loop has no case for the token: nothing is consumed
RowsOther ==
    /\ pc = "Rows"
    /\ \E q \in {peekTok(p)} :
          PeekNotIn(q, {"tRBRACE", "tLSQUARE", "tNAME"}) /\ RowsAgain(q)

---------------------------------------------------------------------------
\* expectGroup (parse.go:339-375)

GroupEOF ==
    /\ pc = "Group"
    /\ \E q \in {peekTok(p)} :
          PeekIs(q, "tEOF") /\ EndGroup(q, "eof", GroupEOFResult(gtabs))

GroupDict ==
    /\ pc = "Group"
    /\ \E q \in {peekTok(p)} :
          PeekIs(q, "tLANGLE") /\ \E r \in {expectDict(q)} : GroupDone(r)

GroupRow ==
    /\ pc = "Group"
    /\ \E q \in {peekTok(p)} :
          PeekIs(q, "tLSQUARE") /\ \E r \in {expectRow(q, <<"c">>)} : GroupDone(r.p)

GroupTable ==
    /\ pc = "Group"
    /\ \E q \in {peekTok(p)} :
          PeekIs(q, "tLBRACE") /\ \E h \in {TableHead(q)} : EnterTable(h, "Group")

GroupCommit ==
    /\ pc = "Group"
    /\ \E q \in {peekTok(p)} :
          /\ PeekIs(q, "tGROUPCOMMIT")
          /\ \E e \in {expect(q, "tGROUPCOMMIT")} : EndGroup(e.p, "commit", gtabs)

GroupAbort ==
    /\ pc = "Group"
    /\ \E q \in {peekTok(p)} :
          /\ PeekIs(q, "tGROUPABORT")
          /\ \E e \in {expect(q, "tGROUPABORT")} :
                EndGroup(e.p, "abort", GroupAbortResult(gtabs))

GroupUnexpected ==
    /\ pc = "Group"
    /\ \E q \in {peekTok(p)} :
          /\ PeekNotIn(q, {"tEOF", "tLANGLE", "tLSQUARE", "tLBRACE",
                           "tGROUPCOMMIT", "tGROUPABORT"})
          /\ Unexpected(q)
    /\ hist' = [hist EXCEPT !.grp = "error"]
    /\ UNCHANGED <<tabs, frame, gtabs>>

---------------------------------------------------------------------------

Next ==
    \/ ParseEOF \/ ParseDict \/ ParseRow \/ ParseTable \/ ParseGroup \/ ParseUnexpected
    \/ MetaSkipErr \/ MetaSkipTok
    \/ RowsEnd \/ RowsRow \/ RowsName \/ RowsOther
    \/ GroupEOF \/ GroupDict \/ GroupRow \/ GroupTable
    \/ GroupCommit \/ GroupAbort \/ GroupUnexpected

Spec == Init /\ [][Next]_vars

\* The parse is one sequential call: a step that can be taken is taken.
FairSpec == Spec /\ WF_vars(Next)


---------------------------------------------------------------------------
(***************************************************************************)
(* The scanner on its own, driven as dumpToks drives it (main.go).  The    *)
(* scanner is p.lex, the parser around it stays idle.  pc is               *)
(*   "nextItem" dumpToks stands in the select loop of nextItem (lex.go:121)*)
(*   "Done"     dumpToks has returned                                      *)
(*   "Panic"    the goroutine has panicked                                 *)
(* and hist records the items dumpToks has printed (toks).                 *)
(***************************************************************************)

\* dumpToks stops at the first of these
IsLast(tok) == tok.typ \in {"tEOF", "tERROR"}

\* the body of the loop of dumpToks, r being the result of nextItem and out
\* the items printed so far
RECURSIVE dumpToks(_, _)
dumpPrinted(r, out) ==
    IF r.nilcall \/ IsLast(r.tok) THEN Append(out, r.tok)
    ELSE dumpToks(r.l, Append(out, r.tok))

\* dumpToks: the items it prints for the lexer l
dumpToks(l, out) == Bind(nextItem(l), LAMBDA r : dumpPrinted(r, out))

MaxPieces == 4

\* the pieces the scanned buffers are made of
Pieces ==
    {<<"@", "$", "$", "{">>,
     <<"@", "$", "$", "}">>,
     <<"{", "@">>,
     <<"}", "@">>,
     <<"~", "~", "}", "@">>,
     <<"1">>,
     <<"=">>,
     <<"\\">>,
     <<")">>,
     <<"^">>,
     <<"/">>,
     <<" ">>,
     <<"\n">>}

ScanInputs == {Flatten(ss) : ss \in UNION {[1..n -> Pieces] : n \in 0..MaxPieces}}

NoScan == [toks |-> <<>>]

ScanInit ==
    /\ \E raw \in ScanInputs : p = NewParser(newLexer(raw))
    /\ tabs = EmptyMap
    /\ pc = "nextItem"
    /\ frame = NoFrame
    /\ gtabs = EmptyMap
    /\ hist = NoScan

\* case item := <-l.items: return item (lex.go:123-124), and dumpToks prints
\* it and returns on tEOF and tERROR (main.go:48-55)
DumpReceive ==
    /\ pc = "nextItem"
    /\ p.lex.items # <<>>
    /\ p' = [p EXCEPT !.lex.items = Tail(@)]
    /\ hist' = [hist EXCEPT !.toks = Append(@, Head(p.lex.items))]
    /\ pc' = IF IsLast(Head(p.lex.items)) THEN "Done" ELSE "nextItem"
    /\ UNCHANGED <<tabs, frame, gtabs>>

\* default: l.state = l.state(l) (lex.go:125-126); calling the nil state
\* function is a run-time panic
DumpStateFn ==
    /\ pc = "nextItem"
    /\ p.lex.items = <<>>
    /\ IF p.lex.state = "nil"
       THEN /\ p' = [p EXCEPT !.panic = "nil state"]
            /\ pc' = "Panic"
            /\ hist' = hist
       ELSE /\ \E l \in {runState(p.lex)} : p' = [p EXCEPT !.lex = l]
            /\ pc' = "nextItem"
            /\ hist' = hist
    /\ UNCHANGED <<tabs, frame, gtabs>>

ScanNext == DumpReceive \/ DumpStateFn

ScanSpec == ScanInit /\ [][ScanNext]_vars

\* dumpToks is one sequential call: a step that can be taken is taken.
ScanFair == ScanSpec /\ WF_vars(ScanNext)

---------------------------------------------------------------------------
(***************************************************************************)
(* Properties.                                                             *)
(***************************************************************************)

\* the entries (namespace, id, value) of the dictionaries; a dictionary that
\* is missing and one that is empty hold the same entries
Entries(d) == UNION {{<<ns, id, d[ns][id]>> : id \in DOMAIN d[ns]} : ns \in DOMAIN d}

\* entry i is the last of defs to define its (id, ns)
LastDef(defs, i) ==
    \A j \in (i + 1)..Len(defs) :
        ~(defs[j].ns = defs[i].ns /\ defs[j].id = defs[i].id)

\* the dictionaries d give entry e its value
Defined(d, e) ==
    /\ e.ns \in DOMAIN d
    /\ e.id \in DOMAIN d[e.ns]
    /\ d[e.ns][e.id] = e.val

\* C1: group abort leaves no trace.  When a group that held a dict
\* construct with a cell and a table construct has ended with a group-abort
\* token, the map of Parse is the one from before the group-start token and
\* the dictionaries hold the entries they held before the group-start token.
GroupAbortNoTrace ==
    (/\ hist.grp = "abort"
     /\ hist.gtabsEnd # EmptyMap
     /\ Len(hist.defsEnd) > Len(hist.defs0))
        => /\ hist.tabsEnd = hist.tabs0
           /\ Entries(hist.dictsEnd) = Entries(hist.dicts0)

\* C2: group commit publishes the group.  When a group has ended with a
\* group-commit token, every table the group completed is in the map of
\* Parse under its key, and every entry the dict constructs of the group
\* defined (the last definition of each (id, ns)) is in the dictionaries.
GroupCommitPublishes ==
    hist.grp = "commit" =>
        /\ \A k \in DOMAIN hist.gtabsEnd :
              k \in DOMAIN hist.tabsEnd /\ hist.tabsEnd[k] = hist.gtabsEnd[k]
        /\ \A i \in (Len(hist.defs0) + 1)..Len(hist.defsEnd) :
              LastDef(hist.defsEnd, i) => Defined(hist.dictsEnd, hist.defsEnd[i])

\* C3: Parse terminates on every finite input: every parse comes to the
\* return of Parse or to the end of the goroutine; no loop of the parser
\* goes round forever.
ParseTerminates == <>(pc \in {"Done", "Panic"})

\* C4: a syntax error is reported as a value, not a crash: when expect has
\* found a token of another kind than the one required, the parser holds the
\* error and has not panicked.
SyntaxErrorIsValue == (p.err.kind = "Unexpected -") => ~Panicked(p)

\* C5: an unresolved reference always makes the parse fail: once resolve
\* has failed on a reference, Parse returns, and it returns the error that
\* names the id and the namespace.
UnresolvedRefFails ==
    (p.err.kind = "bad alias") ~> (pc = "Done" /\ p.err.kind = "bad alias")

\* C6: hex validation: when Parse returns after a hex id was taken from an
\* identifier that goes on with a non-hex character, it returns a "Not hex"
\* error; the leading hex run is never used as the id silently.
HexNeverTruncated == (pc = "Done" /\ p.trunc) => p.err.kind = "Not hex"

\* the result the scenario of C7 is to give: one table "10:c" with meta
\* {owner: Alice} and the row "20" with cells {name: Bob}
Scenario1Tables ==
    Put(EmptyMap, <<"1", "0", ":", "c">>,
        [meta |-> Put(EmptyMap, <<"o", "w", "n", "e", "r">>, <<"A", "l", "i", "c", "e">>),
         rows |-> Put(EmptyMap, <<"2", "0">>,
                      Put(EmptyMap, <<"n", "a", "m", "e">>, <<"B", "o", "b">>))])

\* C7: default table scope: a top-level table construct whose oid has no
\* ':scope' part is stored under the key "<hexid>:c", and the parse of
\* <(name =Alice)>{10{(owner=Alice)}[20(name=Bob)]} returns a nil error and
\* exactly the table "10:c" with meta {owner: Alice} and row "20" {name: Bob}.
DefaultTableScope ==
    /\ \A i \in 1..Len(hist.tlog) :
          ~hist.tlog[i].explicit
              => hist.tlog[i].key = hist.tlog[i].id \o <<":", "c">>
    /\ (pc = "Done" /\ p.lex.input = Scenario1)
          => (p.err = Nil /\ tabs = Scenario1Tables)

\* the scope of a table construct: the one its oid gives, or the default c
SpecScope(e) == IF e.explicit THEN e.scope ELSE <<"c">>

\* table constructs i and j have the same id and the same scope
SameTable(log, i, j) ==
    log[i].id = log[j].id /\ SpecScope(log[i]) = SpecScope(log[j])

\* C8: table identity coalescing: after a successful parse, two top-level
\* table constructs with the same id and different scopes are under two
\* distinct keys of the result map, and two with the same id and scope are
\* under one key, which holds the table of the last such construct.
TableCoalescing ==
    (pc = "Done" /\ p.err = Nil) =>
        \A i, j \in 1..Len(hist.tlog) :
            /\ hist.tlog[i].key \in DOMAIN tabs
            /\ (hist.tlog[i].id = hist.tlog[j].id /\ ~SameTable(hist.tlog, i, j))
                  => hist.tlog[i].key # hist.tlog[j].key
            /\ (i < j /\ SameTable(hist.tlog, i, j))
                  => hist.tlog[i].key = hist.tlog[j].key
            /\ (\A k \in (i + 1)..Len(hist.tlog) : ~SameTable(hist.tlog, i, k))
                  => tabs[hist.tlog[i].key] = hist.tlog[i].tab

\* C9: dictionary last-write-wins: after any sequence of completed dict
\* constructs, resolve(id, ns) gives the value of the cell that defined
\* (id, ns) last in document order, and no error.
DictLastWriteWins ==
    (~Panicked(p) /\ p.err = Nil) =>
        \A i \in 1..Len(p.defs) :
            LastDef(p.defs, i) =>
                /\ resolve(p, p.defs[i].id, p.defs[i].ns).val = p.defs[i].val
                /\ resolve(p, p.defs[i].id, p.defs[i].ns).p.err = Nil

\* Parse has returned after one (id, ns) was defined three times with three
\* values: twice in one dict construct and once in another
RedefinedTwice ==
    /\ pc = "Done"
    /\ p.err = Nil
    /\ \E i, j, k \in 1..Len(p.defs) :
          /\ i < j /\ j < k
          /\ p.defs[i].ns = p.defs[j].ns /\ p.defs[j].ns = p.defs[k].ns
          /\ p.defs[i].id = p.defs[j].id /\ p.defs[j].id = p.defs[k].id
          /\ p.defs[i].val # p.defs[j].val
          /\ p.defs[j].val # p.defs[k].val
          /\ p.defs[i].val # p.defs[k].val

\* when the loop of a group has met the end of the input, Parse goes on to
\* return without a panic, and it returns a nil error and the map it had
\* built before the group-start token
TruncatedGroupDiscarded ==
    hist.grp = "eof" =>
        /\ pc \in {"Parse", "Done"}
        /\ ~Panicked(p)
        /\ p.peeked.typ = "tEOF"
        /\ p.err = Nil
        /\ tabs = hist.tabs0

\* Parse has returned from a truncated group that had completed a table
TruncatedGroupWithTable ==
    /\ pc = "Done"
    /\ hist.grp = "eof"
    /\ hist.gtabsEnd # EmptyMap

\* the item that ends the scan of the input
LastTok(input) == dumpToks(newLexer(input), <<>>)[Len(dumpToks(newLexer(input), <<>>))]

\* the scanner has produced the error token that ends the scan of the input
ErrorTokenProduced == p.lex.state = "nil" /\ LastTok(p.lex.input).typ = "tERROR"

\* C11: a lexical error always fails the parse: once the scanner has
\* produced an error token, wherever the parser stands (Parse, a dict, a
\* table body or metatable, a group), the parse does not panic, Parse
\* returns, and it returns a non-nil error.
LexErrorFailsParse ==
    /\ [](ErrorTokenProduced => (pc # "Panic" /\ (pc = "Done" => p.err # Nil)))
    /\ ErrorTokenProduced ~> pc = "Done"

\* C12: only complete tables are returned on failure: when Parse returns a
\* non-nil error, every key of the map it returns is the key of a table
\* construct that reached its closing '}' with no error recorded, and holds
\* the table of such a construct; the construct during which the error was
\* recorded has put nothing in the map.
OnlyCompleteTables ==
    (pc = "Done" /\ p.err # Nil) =>
        \A k \in DOMAIN tabs :
            \E i \in 1..Len(hist.tlog) :
                /\ hist.tlog[i].key = k
                /\ hist.tlog[i].err = Nil
                /\ hist.tlog[i].tab = tabs[k]

\* C13: scanner pull protocol: after the scanner has delivered its
\* end-of-input or error token (its state function is nil and its queue is
\* empty), the parser does not call nextItem again: nextItem never calls the
\* nil state function.
PullProtocol == p.panic # "nil state"

\* the kinds of token expect is called with
ExpectedTypes ==
    {"tLANGLE", "tRANGLE", "tLPAREN", "tRPAREN", "tLSQUARE", "tRSQUARE", "tLBRACE",
     "tNAME", "tCARET", "tLITERAL", "tGROUPSTART", "tGROUPCOMMIT", "tGROUPABORT"}

\* the ids and namespaces resolve is tried with
ResolveArgs == {<<"1">>, <<"2">>, <<"a">>, <<"c">>, <<>>}

\* expect, expectID and resolve called on the parser q return the empty
\* value and leave q as it is: no token consumed, the error unchanged
StickyCalls(q) ==
    /\ \A t \in ExpectedTypes : expect(q, t) = [p |-> q, tok |-> EmptyItem]
    /\ expectID(q) = NoVal(q)
    /\ \A id \in ResolveArgs, ns \in ResolveArgs : resolve(q, id, ns) = NoVal(q)

\* C14: sticky error: in every state where the error field of the parser is
\* set, expect, expectID and resolve return the empty value, consume no
\* token and leave the error field as it is; and no step of the parse
\* changes an error field that is set, so the error Parse returns is the
\* first one recorded.
StickyError ==
    /\ [](p.err # Nil => StickyCalls(p))
    /\ [][p.err # Nil => p'.err = p.err]_vars

\* a reference has failed inside a metatable cell and the expect of the
\* cell's ')' that came after it has left the ')' in place
StickyAfterBadAlias ==
    /\ pc = "MetaSkip"
    /\ p.err.kind = "bad alias"
    /\ p.peeked.typ = "tRPAREN"

\* the entry of the cell (2^1) of <(1=y)(1=z)(2^1)>, the one cell of the
\* inputs whose slot refers to a cell of its own dict construct: ^1 with the
\* default namespace a, the namespace the construct writes to
SelfRefCell(d) == d.id = <<"2">>

\* C15: source-order visibility of dict cells: a reference in a cell of a
\* dict construct to a cell earlier in the same construct resolves to the
\* value of that cell: the cell (2^1) behind (1=z) has the value z, and the
\* parse of <(1=y)(1=z)(2^1)> returns a nil error and defines 2 as z.
DictCellsVisibleInOrder ==
    /\ \A i \in 1..Len(p.defs) : SelfRefCell(p.defs[i]) => p.defs[i].val = <<"z">>
    /\ (pc = "Done" /\ p.lex.input = FragDictTwice)
          => /\ p.err = Nil
             /\ Defined(p.dicts, [ns |-> <<"a">>, id |-> <<"2">>, val |-> <<"z">>])

\* nextItem calls the state function of the scanner in this step
StateFnCalled == pc = "nextItem" /\ p.lex.items = <<>> /\ p.lex.state # "nil"

\* the items printed so far end the scan exactly at the last of them
ProperlyEnded ==
    /\ \A i \in 1..Len(hist.toks) :
          IsLast(hist.toks[i]) <=> (i = Len(hist.toks) /\ pc = "Done")
    /\ pc = "Done" => hist.toks # <<>>

\* C16: the token sequence of the scanner is finite and properly ended:
\* for every input, every call of nextItem returns (none calls the nil state
\* function), dumpToks comes to its return, the last item is end-of-input or
\* an error item and no such item comes before the last; and every state
\* function that returns a non-nil next state has consumed at least one byte
\* or emitted at least one item.
ScanEndsWithProgress ==
    /\ <>(pc = "Done")
    /\ [](pc # "Panic")
    /\ []ProperlyEnded
    /\ [][(StateFnCalled /\ p'.lex.state # "nil")
             => (p'.lex.curr > p.lex.curr \/ p'.lex.items # <<>>)]_vars

\* C16 as amended: as above, but a state function that returns a non-nil
\* next state has consumed at least one byte or emitted at least one item
\* unless it is lexDefault returning another state function than itself
\* (it has peeked a byte and leaves it to lexComment, lexLiteral, lexName or
\* lexGroup); and each of those four, returning a non-nil next state, has
\* consumed at least one byte.
ScanEnds ==
    /\ <>(pc = "Done")
    /\ [](pc # "Panic")
    /\ []ProperlyEnded
    /\ [][(StateFnCalled /\ p'.lex.state # "nil")
             => \/ p'.lex.curr > p.lex.curr
                \/ /\ p.lex.state = "lexDefault"
                   /\ \/ p'.lex.items # <<>>
                      \/ p'.lex.state # "lexDefault"]_vars

\* dumpToks has returned after a name that lexDefault left to lexName and
\* the end of the input
ScannedNameToEnd ==
    /\ pc = "Done"
    /\ Len(hist.toks) >= 3
    /\ hist.toks[Len(hist.toks)].typ = "tEOF"
    /\ hist.toks[Len(hist.toks) - 1].typ = "tNAME"

\* the number of consecutive backslashes of the input right before index k,
\* counted down to index from
RECURSIVE BackslashRun(_, _, _)
BackslashRun(input, from, k) ==
    IF k > from /\ input[k - 1] = "\\" THEN 1 + BackslashRun(input, from, k - 1) ELSE 0

\* the indexes at or after from of a ')' behind an even run of backslashes
LitEnds(input, from) ==
    {k \in from..Len(input) : input[k] = ")" /\ BackslashRun(input, from, k) % 2 = 0}

\* the index at which the literal that starts at index from ends: the first
\* of LitEnds, or the end of the input
LitEnd(input, from) ==
    IF LitEnds(input, from) = {} THEN Len(input) + 1
    ELSE CHOOSE k \in LitEnds(input, from) : \A j \in LitEnds(input, from) : k <= j

\* C17: literal extent: every '=' item is followed by a literal item, and
\* the text of a literal item is the input from the byte behind the '=' up
\* to, not including, the first ')' behind an even number (zero included) of
\* consecutive backslashes, or up to the end of the input when there is no
\* such ')'; backslashes are kept in the text as they are.
LiteralExtent ==
    \A i \in 1..Len(hist.toks) :
        /\ (hist.toks[i].typ = "tEQUAL" /\ i < Len(hist.toks))
              => hist.toks[i + 1].typ = "tLITERAL"
        /\ hist.toks[i].typ = "tLITERAL"
              => /\ i > 1
                 /\ hist.toks[i - 1].typ = "tEQUAL"
                 /\ hist.toks[i].pos = hist.toks[i - 1].pos + 1
                 /\ hist.toks[i].val =
                        SubSeq(p.lex.input, hist.toks[i].pos + 1,
                               LitEnd(p.lex.input, hist.toks[i].pos + 1) - 1)

\* dumpToks has printed a literal that holds an escaped ')' and ends at the
\* ')' behind it
LiteralWithEscapedParen ==
    \E i \in 1..Len(hist.toks) :
        /\ hist.toks[i].typ = "tLITERAL"
        /\ hist.toks[i].val = <<"\\", ")">>
        /\ i < Len(hist.toks)
        /\ hist.toks[i + 1].typ = "tRPAREN"

\* the input holds the bytes s from index i on
StartsWith(input, i, s) ==
    /\ i + Len(s) - 1 <= Len(input)
    /\ SubSeq(input, i, i + Len(s) - 1) = s

\* the index behind the hex run of the input that starts at index j
RECURSIVE HexEnd(_, _)
HexEnd(input, j) ==
    IF j <= Len(input) /\ isHex(input[j]) THEN HexEnd(input, j + 1) ELSE j

\* what the group marker at index i of the input is: the kind of item and the
\* length of the marker (tERROR for a malformed marker)
MarkerAt(input, i) ==
    IF /\ StartsWith(input, i, <<"@", "$", "$", "{">>)
       /\ HexEnd(input, i + 4) > i + 4
       /\ StartsWith(input, HexEnd(input, i + 4), <<"{", "@">>)
    THEN [typ |-> "tGROUPSTART", len |-> HexEnd(input, i + 4) + 2 - i]
    ELSE IF StartsWith(input, i, <<"@", "$", "$", "}", "~", "~", "}", "@">>)
    THEN [typ |-> "tGROUPABORT", len |-> 8]
    ELSE IF /\ StartsWith(input, i, <<"@", "$", "$", "}">>)
            /\ HexEnd(input, i + 4) > i + 4
            /\ StartsWith(input, HexEnd(input, i + 4), <<"}", "@">>)
    THEN [typ |-> "tGROUPCOMMIT", len |-> HexEnd(input, i + 4) + 2 - i]
    ELSE [typ |-> "tERROR", len |-> 0]

\* what lexGroup, called on the lexer l, is to leave as the lexer n
GroupOutcome(l, n) ==
    /\ Len(n.items) = 1
    /\ n.items[1].typ = MarkerAt(l.input, l.curr + 1).typ
    /\ IF MarkerAt(l.input, l.curr + 1).typ = "tERROR"
       THEN n.state = "nil"
       ELSE /\ n.state = "lexDefault"
            /\ n.items[1].val =
                   SubSeq(l.input, l.curr + 1,
                          l.curr + MarkerAt(l.input, l.curr + 1).len)

\* C18: group markers: lexDefault hands over to lexGroup at an '@' only, and
\* lexGroup emits exactly one item: a group-start item for '@$${' + a
\* non-empty hex run + '{@', a group-abort item for '@$$}~~}@', a
\* group-commit item for '@$$}' + a non-empty hex run + '}@', each holding
\* the marker, and for everything else one error item, after which the
\* scanner stops (its state function is nil).
GroupMarkers ==
    /\ [](p.lex.state = "lexGroup" => peek(p.lex) = "@")
    /\ [][(StateFnCalled /\ p.lex.state = "lexGroup")
             => GroupOutcome(p.lex, p'.lex)]_vars

\* dumpToks has returned after a group-start item and the error item of a
\* malformed marker
MarkerThenMalformed ==
    /\ pc = "Done"
    /\ Len(hist.toks) = 2
    /\ hist.toks[1].typ = "tGROUPSTART"
    /\ hist.toks[2].typ = "tERROR"

\* Parse or expectGroup calls expectDict in this step
DictCalled == pc \in {"Parse", "Group"} /\ PeekIs(peekTok(p), "tLANGLE")

\* the namespace the dict construct at index i of the input is to write to:
\* the value of the cell a of its leading metadict (in the inputs the cell a
\* is the first cell of a metadict and has a literal value), or else a
DictTarget(input, i) ==
    IF StartsWith(input, i, <<"<", "<", "(", "a", "=">>)
    THEN SubSeq(input, i + 5, LitEnd(input, i + 5) - 1)
    ELSE <<"a">>

\* what a call of expectDict that takes the parser q to the parser n is to do
\* to the dictionaries, target being the namespace of the construct
DictEffect(q, n, target) ==
    /\ \A e \in Entries(n.dicts) \ Entries(q.dicts) : e[1] = target
    /\ \A e \in Entries(q.dicts) \ Entries(n.dicts) : e[1] = target
    /\ (Panicked(n) \/ n.err # Nil) => Entries(n.dicts) = Entries(q.dicts)
    /\ (~Panicked(n) /\ n.err = Nil)
          => \A i \in (Len(q.defs) + 1)..Len(n.defs) :
                 LastDef(n.defs, i)
                     => Defined(n.dicts, [ns |-> target, id |-> n.defs[i].id,
                                          val |-> n.defs[i].val])

\* C19: dict target namespace and frame: a dict construct writes its cells
\* into the namespace that the cell a of its leading metadict names, or into
\* the namespace a when it has no such cell; it changes no entry of another
\* namespace; and a dict construct during which an error is recorded changes
\* no entry at all.
DictFrame ==
    [][DictCalled
          => DictEffect(p, p', DictTarget(p.lex.input, peekTok(p).peeked.pos + 1))]_vars

\* Parse has returned after a dict construct wrote 1 into the namespace c of
\* its metadict and left the entry 1 of the namespace a as it was
DictInNamespaceC ==
    /\ pc = "Done"
    /\ p.err = Nil
    /\ Defined(p.dicts, [ns |-> <<"c">>, id |-> <<"1">>, val |-> <<"s">>])
    /\ Defined(p.dicts, [ns |-> <<"a">>, id |-> <<"1">>, val |-> <<"x">>])

\* the capacity of the items channel (lex.go:114)
QueueCap == 2

\* C20: token queue bound: in every state of the scanner, right after a
\* state function has run included, the items queue holds at most as many
\* items as its capacity 2, so that no emit or emitErrorf blocks.
QueueBound == Len(p.lex.items) <= QueueCap

\* a state function has returned with two items in the queue, the second
\* an error item
QueueFull ==
    /\ Len(p.lex.items) = 2
    /\ p.lex.items[2].typ = "tERROR"

\* the items of the scan of the input
ItemsOf(input) == dumpToks(newLexer(input), <<>>)

\* the scan of the input reaches the end of the input behind a group-start
\* item that no group-commit or group-abort item follows
TruncatedInput(input) ==
    /\ LastTok(input).typ = "tEOF"
    /\ \E i \in 1..Len(ItemsOf(input)) :
          /\ ItemsOf(input)[i].typ = "tGROUPSTART"
          /\ \A j \in (i + 1)..Len(ItemsOf(input)) :
                ItemsOf(input)[j].typ \notin {"tGROUPCOMMIT", "tGROUPABORT"}

\* Parse has met a group-start token of an input that ends inside a group
InTruncatedGroup == hist.grp # "none" /\ TruncatedInput(p.lex.input)

\* C10: truncated group: for every input that reaches the end of the input
\* behind a group-start token with no group-commit or group-abort token,
\* whatever the group holds when the input ends, the parse does not panic
\* and Parse returns a nil error and the map it had built before the
\* group-start token (no table of the group is in it).
TruncatedGroupReturns ==
    /\ [](InTruncatedGroup => pc # "Panic")
    /\ InTruncatedGroup ~> (pc = "Done" /\ p.err = Nil /\ tabs = hist.tabs0)
====
